---- MODULE Spec2Model ----
(***************************************************************************)
(* Model of packages/aws-cdk/lib/diff.ts: the stack diff reporter          *)
(* (printStackDiff), the security approval evaluator (printSecurityDiff),  *)
(* the approval policy (difRequiresApproval) and the logical-id to path    *)
(* map (buildLogicalToPathMap), together with the plugin registry of       *)
(* difference formatter sources they read.                                 *)
(***************************************************************************)
EXTENDS Naturals, Sequences, FiniteSets, TLC

VARIABLES registry, pc, call, ret, events

vars == <<registry, pc, call, ret, events>>

(***************************************************************************)
(* Bounds of the model.                                                    *)
(***************************************************************************)
MaxSources == 2
MaxResources == 2
MaxMeta == 3

(***************************************************************************)
(* Values.                                                                 *)
(***************************************************************************)
Undefined == "undefined"
Null == "null"
Sentinel == "AWS::CDK::Metadata"
\* the sentinel type and one value for every type that is not the sentinel (another
\* resource type, or none for a resource that was added or removed)
ResourceTypes == {Sentinel, "AWS::S3::Bucket"}
\* differences of the diff outside its resources: none or one
OtherCounts == {0, 1}

\* process.stderr / process.stdout and a stream supplied by the caller
Stderr == "stderr"
Stdout == "stdout"
StreamArgs == {Undefined, "buffer"}

\* cfnDiff.formatDifferences / cfnDiff.formatSecurityChanges, told apart from the
\* registered sources 1..MaxSources
Builtin == 0
SourceNames == 1..MaxSources

LOGICAL_ID == "aws:cdk:logicalId"
ERROR == "aws:cdk:error"
EntryTypes == {LOGICAL_ID, ERROR}
LogicalIds == {"A", "B"}
Paths == {"/x", "/y"}

RequireApproval == [Never |-> "never", AnyChange |-> "any-change", Broadening |-> "broadening"]
ApprovalArgs == {RequireApproval.Never, RequireApproval.AnyChange, RequireApproval.Broadening, "bogus"}

(***************************************************************************)
(* Sequences of bounded length.                                            *)
(***************************************************************************)
SeqUpTo(S, n) == UNION {[1..k -> S] : k \in 0..n}

RECURSIVE SelectSeq2(_, _)
\* s without the elements outside the set keep, order kept
SelectSeq2(s, keep) ==
    IF s = <<>> THEN <<>>
    ELSE IF Head(s) \in keep THEN <<Head(s)>> \o SelectSeq2(Tail(s), keep)
    ELSE SelectSeq2(Tail(s), keep)

(***************************************************************************)
(* The artifact of the new stack: its metadata entries, in order.          *)
(***************************************************************************)
MetadataEntries == [type : EntryTypes, data : LogicalIds, path : Paths]
ArtifactsUpTo(n) == SeqUpTo(MetadataEntries, n)

RECURSIVE findMetadataByType(_, _)
findMetadataByType(stack, type) ==
    IF stack = <<>> THEN <<>>
    ELSE IF Head(stack).type = type
         THEN <<Head(stack)>> \o findMetadataByType(Tail(stack), type)
         ELSE findMetadataByType(Tail(stack), type)

RECURSIVE MapOfEntries(_, _)
\* the loop body map[md.data] = md.path over the entries, from the map so far
MapOfEntries(entries, map) ==
    IF entries = <<>> THEN map
    ELSE MapOfEntries(Tail(entries), (Head(entries).data :> Head(entries).path) @@ map)

RECURSIVE MapOfEntriesFirstWins(_, _)
MapOfEntriesFirstWins(entries, map) ==
    IF entries = <<>> THEN map
    ELSE MapOfEntriesFirstWins(Tail(entries), map @@ (Head(entries).data :> Head(entries).path))

buildLogicalToPathMapFirstWins(stack) ==
    MapOfEntriesFirstWins(findMetadataByType(stack, LOGICAL_ID), <<>>)

buildLogicalToPathMap(stack) ==
    MapOfEntries(findMetadataByType(stack, LOGICAL_ID), <<>>)

(***************************************************************************)
(* The diff result of cfnDiff.diffTemplate.                                *)
(***************************************************************************)
NullChange == [oldResourceType |-> Null, newResourceType |-> Null]
Changes == [oldResourceType : ResourceTypes, newResourceType : ResourceTypes]
ChangeRecords == Changes \cup {NullChange}

\* the differences a resources collection counts: its non-null records
ResourceDifferences(resources) ==
    Cardinality({i \in 1..Len(resources) : resources[i] # NullChange})

\* TemplateDiff.differenceCount
DifferenceCount(diff) == diff.otherCount + ResourceDifferences(diff.resources)

\* TemplateDiff.isEmpty
IsEmpty(diff) == DifferenceCount(diff) = 0

\* what diffTemplate can return
DiffResults ==
    {d \in [resources : SeqUpTo(ChangeRecords, MaxResources),
            otherCount : OtherCounts,
            permissionsAnyChanges : BOOLEAN,
            permissionsBroadened : BOOLEAN] :
        IsEmpty(d) => (~d.permissionsAnyChanges /\ ~d.permissionsBroadened)}


(***************************************************************************)
(* PluginHost.instance.differenceFormatterSources: the registry, a list of *)
(* sources with distinct names in registration order.                      *)
(***************************************************************************)
Names(reg) == {reg[i] : i \in 1..Len(reg)}

differenceFormatterSourcesStale(reg) == IF reg = <<>> THEN reg ELSE SubSeq(reg, 1, Len(reg) - 1)

\* what a reporting call reads when it consults the registry
differenceFormatterSources(reg) == reg

\* a source whose getFormatter or whose formatter throws during a call
NoFault == [at |-> 0, kind |-> "none"]
Faults(reg) == {NoFault} \cup [at : 1..Len(reg), kind : {"factory", "render"}]

(***************************************************************************)
(* What a call does, in order: the formatters it obtains and runs with     *)
(* the arguments it hands them, what they write, and the notices.          *)
(***************************************************************************)
GetFormatterEvent(source, args) == [ev |-> "getFormatter", src |-> source, args |-> args]
FormatEvent(method, source) == [ev |-> method, src |-> source]
WriteEvent(method, source, stream) == [ev |-> "write", src |-> source, what |-> method, stream |-> stream]
BuiltinEvent(method, args) == [ev |-> method, src |-> Builtin, args |-> args]
NoticeEvent(level, msg) == [ev |-> level, msg |-> msg]

RECURSIVE forEachSourceTwoPass(_, _, _, _, _)
\* all formatters obtained first, then all of them run
forEachSourceTwoPass(sources, i, method, args, fault) ==
    LET n == Len(sources)
        k == IF i <= n THEN i ELSE i - n
    IN  IF i > 2 * n THEN [threw |-> FALSE, events |-> <<>>]
        ELSE IF i <= n
        THEN IF fault.at = k /\ fault.kind = "factory"
             THEN [threw |-> TRUE, events |-> <<GetFormatterEvent(sources[k], args)>>]
             ELSE LET rest == forEachSourceTwoPass(sources, i + 1, method, args, fault)
                  IN  [threw |-> rest.threw,
                       events |-> <<GetFormatterEvent(sources[k], args)>> \o rest.events]
        ELSE IF fault.at = k /\ fault.kind = "render"
             THEN [threw |-> TRUE, events |-> <<FormatEvent(method, sources[k])>>]
             ELSE LET rest == forEachSourceTwoPass(sources, i + 1, method, args, fault)
                  IN  [threw |-> rest.threw,
                       events |-> <<FormatEvent(method, sources[k]),
                                    WriteEvent(method, sources[k], args.stream)>> \o rest.events]

RECURSIVE forEachSourceAtomic(_, _, _, _, _)
\* a failure discards what the earlier sources did
forEachSourceAtomic(sources, i, method, args, fault) ==
    IF i > Len(sources) THEN [threw |-> FALSE, events |-> <<>>]
    ELSE IF fault.at = i THEN [threw |-> TRUE, events |-> <<>>]
    ELSE LET rest == forEachSourceAtomic(sources, i + 1, method, args, fault)
         IN  [threw |-> rest.threw,
              events |-> IF rest.threw THEN <<>>
                         ELSE <<GetFormatterEvent(sources[i], args),
                                FormatEvent(method, sources[i]),
                                WriteEvent(method, sources[i], args.stream)>> \o rest.events]

RECURSIVE forEachSource(_, _, _, _, _)
\* sources.forEach(source => source.getFormatter(...).<method>()) from the i-th source on
forEachSource(sources, i, method, args, fault) ==
    IF i > Len(sources) THEN [threw |-> FALSE, events |-> <<>>]
    ELSE IF fault.at = i /\ fault.kind = "factory"
    THEN [threw |-> TRUE, events |-> <<GetFormatterEvent(sources[i], args)>>]
    ELSE IF fault.at = i /\ fault.kind = "render"
    THEN [threw |-> TRUE,
          events |-> <<GetFormatterEvent(sources[i], args), FormatEvent(method, sources[i])>>]
    ELSE LET rest == forEachSource(sources, i + 1, method, args, fault)
         IN  [threw |-> rest.threw,
              events |-> <<GetFormatterEvent(sources[i], args),
                           FormatEvent(method, sources[i]),
                           WriteEvent(method, sources[i], args.stream)>> \o rest.events]

\* the branch on the registry's length: every source, or the built-in alone
Render(sources, method, args, fault) ==
    IF Len(sources) > 0
    THEN forEachSource(sources, 1, method, args, fault)
    ELSE [threw |-> FALSE,
          events |-> <<BuiltinEvent(method, args), WriteEvent(method, Builtin, args.stream)>>]

(***************************************************************************)
(* printStackDiff                                                          *)
(***************************************************************************)
KeepChangeNewOnly(change) ==
    IF change = NullChange THEN TRUE
    ELSE IF change.newResourceType = Sentinel THEN FALSE
    ELSE TRUE

\* the callback of diff.resources.filter
KeepChange(change) ==
    IF change = NullChange THEN TRUE
    ELSE IF change.newResourceType = Sentinel THEN FALSE
    ELSE IF change.oldResourceType = Sentinel THEN FALSE
    ELSE TRUE

\* diff.resources after the filtering step (diffTemplate always sets resources,
\* so the guard diff.resources && !strict is decided by strict)
FilteredResources(resources, strict) ==
    IF ~strict
    THEN SelectSeq2(resources, {c \in ChangeRecords : KeepChange(c)})
    ELSE resources

ShouldRenderAlways(diff) == TRUE

\* the test !diff.isEmpty
ShouldRender(diff) == ~IsEmpty(diff)

ReturnedCountBeforeFilter(diff0, diff) == DifferenceCount(diff0)

\* return diff.differenceCount, read from the diff object after the filtering
ReturnedCount(diff0, diff) == DifferenceCount(diff)

NoDifferences == "There were no differences"

Returned(value, evs) == [outcome |-> "returned", value |-> value, error |-> "none", events |-> evs]
Threw(error, evs) == [outcome |-> "threw", value |-> Undefined, error |-> error, events |-> evs]

HasError(stack) == findMetadataByType(stack, ERROR) # <<>>

printStackDiffValidating(diff0, newTemplate, strict, stream, reg, fault) ==
    LET diff == [diff0 EXCEPT !.resources = FilteredResources(diff0.resources, strict)]
        target == IF stream # Undefined THEN stream ELSE Stderr
        args == [stream |-> target, diff |-> diff, map |-> buildLogicalToPathMap(newTemplate)]
    IN  IF HasError(newTemplate) THEN Threw("DiffInputInvalidError", <<>>)
        ELSE IF ShouldRender(diff)
        THEN LET r == Render(differenceFormatterSources(reg), "formatDifferences", args, fault)
             IN  IF r.threw THEN Threw("FormatterError", r.events)
                 ELSE Returned(ReturnedCount(diff0, diff), r.events)
        ELSE Returned(ReturnedCount(diff0, diff), <<NoticeEvent("print", NoDifferences)>>)

printStackDiff(diff0, newTemplate, strict, stream, reg, fault) ==
    LET diff == [diff0 EXCEPT !.resources = FilteredResources(diff0.resources, strict)]
        target == IF stream # Undefined THEN stream ELSE Stderr
        args == [stream |-> target, diff |-> diff, map |-> buildLogicalToPathMap(newTemplate)]
    IN  IF ShouldRender(diff)
        THEN LET r == Render(differenceFormatterSources(reg), "formatDifferences", args, fault)
             IN  IF r.threw THEN Threw("FormatterError", r.events)
                 ELSE Returned(ReturnedCount(diff0, diff), r.events)
        ELSE Returned(ReturnedCount(diff0, diff), <<NoticeEvent("print", NoDifferences)>>)

(***************************************************************************)
(* printSecurityDiff                                                       *)
(***************************************************************************)
difRequiresApprovalSwapped(diff, requireApproval) ==
    IF requireApproval = RequireApproval.Never THEN [threw |-> FALSE, value |-> FALSE]
    ELSE IF requireApproval = RequireApproval.AnyChange
    THEN [threw |-> FALSE, value |-> diff.permissionsBroadened]
    ELSE IF requireApproval = RequireApproval.Broadening
    THEN [threw |-> FALSE, value |-> diff.permissionsAnyChanges]
    ELSE [threw |-> TRUE, value |-> FALSE]

difRequiresApproval(diff, requireApproval) ==
    IF requireApproval = RequireApproval.Never THEN [threw |-> FALSE, value |-> FALSE]
    ELSE IF requireApproval = RequireApproval.AnyChange
    THEN [threw |-> FALSE, value |-> diff.permissionsAnyChanges]
    ELSE IF requireApproval = RequireApproval.Broadening
    THEN [threw |-> FALSE, value |-> diff.permissionsBroadened]
    ELSE [threw |-> TRUE, value |-> FALSE]

SensitiveChanges == "This deployment will make potentially sensitive changes"
PleaseConfirm == "Please confirm you intend to make the following modifications"

printSecurityDiffFull(diff, newTemplate, requireApproval, reg, fault) ==
    LET approval == difRequiresApproval(diff, requireApproval)
        args == [stream |-> Stdout, diff |-> diff, map |-> buildLogicalToPathMap(newTemplate)]
        warnings == <<NoticeEvent("warning", SensitiveChanges), NoticeEvent("warning", PleaseConfirm)>>
    IN  IF approval.threw THEN Threw("Unrecognized approval level", <<>>)
        ELSE LET r == Render(differenceFormatterSources(reg), "formatDifferences", args, fault)
             IN  IF r.threw THEN Threw("FormatterError", warnings \o r.events)
                 ELSE Returned(approval.value, warnings \o r.events)

printSecurityDiff(diff, newTemplate, requireApproval, reg, fault) ==
    LET approval == difRequiresApproval(diff, requireApproval)
        args == [stream |-> Stdout, diff |-> diff, map |-> buildLogicalToPathMap(newTemplate)]
        warnings == <<NoticeEvent("warning", SensitiveChanges), NoticeEvent("warning", PleaseConfirm)>>
    IN  IF approval.threw THEN Threw("Unrecognized approval level", <<>>)
        ELSE IF approval.value
        THEN LET r == Render(differenceFormatterSources(reg), "formatSecurityChanges", args, fault)
             IN  IF r.threw THEN Threw("FormatterError", warnings \o r.events)
                 ELSE Returned(TRUE, warnings \o r.events)
        ELSE Returned(FALSE, <<>>)

(***************************************************************************)
(* State machine: registrations and reporting calls, one at a time.        *)
(***************************************************************************)
NoCall == [op |-> "none"]
NoRet == [outcome |-> "none", value |-> Undefined, error |-> "none"]

Init ==
    /\ registry = <<>>
    /\ pc = "idle"
    /\ call = NoCall
    /\ ret = NoRet
    /\ events = <<>>

\* registerDifferenceFormatterSource: a name already registered is refused
Register(name) ==
    /\ pc = "idle"
    /\ registry' = IF name \in Names(registry) THEN registry ELSE Append(registry, name)
    /\ UNCHANGED <<pc, call, ret, events>>

\* removal by name, nothing to do when the name is absent
Unregister(name) ==
    /\ pc = "idle"
    /\ registry' = SelectSeq2(registry, SourceNames \ {name})
    /\ UNCHANGED <<pc, call, ret, events>>

\* the stacks the reporting calls are given: one without metadata, one with a
\* logical id and one with an error
CallArtifacts ==
    {<<>>,
     <<[type |-> LOGICAL_ID, data |-> "A", path |-> "/x"]>>,
     <<[type |-> ERROR, data |-> "A", path |-> "/x"]>>}

PrintStackDiff ==
    /\ pc = "idle"
    /\ \E diff0 \in DiffResults, newTemplate \in CallArtifacts, strict \in BOOLEAN,
          stream \in StreamArgs, fault \in Faults(registry) :
         LET r == printStackDiff(diff0, newTemplate, strict, stream, registry, fault)
         IN  /\ call' = [op |-> "printStackDiff", diff |-> diff0, newTemplate |-> newTemplate,
                         strict |-> strict, stream |-> stream, fault |-> fault]
             /\ ret' = [outcome |-> r.outcome, value |-> r.value, error |-> r.error]
             /\ events' = r.events
    /\ pc' = "done"
    /\ UNCHANGED registry

PrintSecurityDiff ==
    /\ pc = "idle"
    /\ \E diff \in DiffResults, newTemplate \in CallArtifacts, requireApproval \in ApprovalArgs,
          fault \in Faults(registry) :
         LET r == printSecurityDiff(diff, newTemplate, requireApproval, registry, fault)
         IN  /\ call' = [op |-> "printSecurityDiff", diff |-> diff, newTemplate |-> newTemplate,
                         requireApproval |-> requireApproval, fault |-> fault]
             /\ ret' = [outcome |-> r.outcome, value |-> r.value, error |-> r.error]
             /\ events' = r.events
    /\ pc' = "done"
    /\ UNCHANGED registry

\* the caller takes the result and prepares the next call with a fresh stream
NextCall ==
    /\ pc = "done"
    /\ pc' = "idle"
    /\ call' = NoCall
    /\ ret' = NoRet
    /\ events' = <<>>
    /\ UNCHANGED registry

Next ==
    \/ \E name \in SourceNames : Register(name)
    \/ \E name \in SourceNames : Unregister(name)
    \/ PrintStackDiff
    \/ PrintSecurityDiff
    \/ NextCall

Spec == Init /\ [][Next]_vars

(***************************************************************************)
(* The two pure functions on their own: buildLogicalToPathMap over every   *)
(* artifact of up to MaxMeta metadata entries, difRequiresApproval over    *)
(* every diff result and approval level.                                   *)
(***************************************************************************)
BuildMap ==
    /\ pc = "idle"
    /\ \E stack \in ArtifactsUpTo(MaxMeta) :
         /\ call' = [op |-> "buildLogicalToPathMap", stack |-> stack]
         /\ ret' = [outcome |-> "returned", value |-> buildLogicalToPathMap(stack), error |-> "none"]
    /\ pc' = "done"
    /\ UNCHANGED <<registry, events>>

EvalApproval ==
    /\ pc = "idle"
    /\ \E diff \in DiffResults, requireApproval \in ApprovalArgs :
         LET r == difRequiresApproval(diff, requireApproval)
         IN  /\ call' = [op |-> "difRequiresApproval", diff |-> diff,
                         requireApproval |-> requireApproval]
             /\ ret' = IF r.threw
                       THEN [outcome |-> "threw", value |-> Undefined,
                             error |-> "Unrecognized approval level"]
                       ELSE [outcome |-> "returned", value |-> r.value, error |-> "none"]
    /\ pc' = "done"
    /\ UNCHANGED <<registry, events>>

NextPure ==
    \/ BuildMap
    \/ EvalApproval
    \/ NextCall

SpecPure == Init /\ [][NextPure]_vars

(***************************************************************************)
(* Vocabulary of the properties.                                           *)
(***************************************************************************)
IsStackCall == call.op = "printStackDiff"
IsSecurityCall == call.op = "printSecurityDiff"

FormatMethods == {"formatDifferences", "formatSecurityChanges"}

\* the renderer invocations of the call, in order
Invocations == SelectSeq(events, LAMBDA e : e.ev \in FormatMethods)
InvokedSources == [i \in 1..Len(Invocations) |-> Invocations[i].src]

\* what the renderers wrote, in order
Writes == SelectSeq(events, LAMBDA e : e.ev = "write")
WrittenBy == [i \in 1..Len(Writes) |-> Writes[i].src]

Notices == SelectSeq(events, LAMBDA e : e.ev \in {"print", "warning"})

\* the events that hand a diff to a renderer: a getFormatter call, or the built-in
HandOvers ==
    SelectSeq(events, LAMBDA e : e.ev = "getFormatter" \/ (e.ev \in FormatMethods /\ e.src = Builtin))

IsSentinelChange(c) ==
    c # NullChange /\ (c.oldResourceType = Sentinel \/ c.newResourceType = Sentinel)

\* the indices of the algorithm's resource changes that are displayed
Displayed ==
    {i \in 1..Len(call.diff.resources) :
        call.strict \/ ~IsSentinelChange(call.diff.resources[i])}

\* the j-th smallest element of a set of indices
Nth(S, j) == CHOOSE i \in S : Cardinality({k \in S : k < i}) = j - 1

\* the number of differences displayed
DisplayedCount ==
    call.diff.otherCount
    + Cardinality({i \in Displayed : call.diff.resources[i] # NullChange})

UnfilteredCount ==
    call.diff.otherCount
    + Cardinality({i \in 1..Len(call.diff.resources) : call.diff.resources[i] # NullChange})

\* the events of one call that renders with the method m: per registered source
\* the factory call, the rendering, its output; or the built-in alone
IsSequentialRendering(evs, m) ==
    IF registry = <<>>
    THEN /\ Len(evs) = 2
         /\ evs[1].ev = m /\ evs[1].src = Builtin
         /\ evs[2].ev = "write" /\ evs[2].src = Builtin /\ evs[2].what = m
    ELSE /\ Len(evs) = 3 * Len(registry)
         /\ \A i \in 1..Len(registry) :
              /\ evs[3 * i - 2].ev = "getFormatter" /\ evs[3 * i - 2].src = registry[i]
              /\ evs[3 * i - 1].ev = m /\ evs[3 * i - 1].src = registry[i]
              /\ evs[3 * i].ev = "write" /\ evs[3 * i].src = registry[i] /\ evs[3 * i].what = m

(***************************************************************************)
(* C1 (as stated): printStackDiff on an artifact with an ERROR metadata    *)
(* entry fails with DiffInputInvalidError, and does nothing else.          *)
(***************************************************************************)
C1_FailsOnErrorMetadata ==
    (IsStackCall /\ HasError(call.newTemplate))
        => (ret.outcome = "threw" /\ ret.error = "DiffInputInvalidError" /\ events = <<>>)

(***************************************************************************)
(* C1 (amended): printStackDiff does not look at ERROR metadata. On an     *)
(* artifact that carries some it never fails with DiffInputInvalidError:   *)
(* it fails only when a formatter source fails, and otherwise returns the  *)
(* count after rendering or printing the notice.                           *)
(***************************************************************************)
C1_ErrorMetadataNotChecked ==
    (IsStackCall /\ HasError(call.newTemplate))
        => /\ ret.error # "DiffInputInvalidError"
           /\ ret.outcome = "threw" => ret.error = "FormatterError"
           /\ call.fault = NoFault => (ret.outcome = "returned" /\ events # <<>>)

C1_Witness ==
    /\ IsStackCall
    /\ HasError(call.newTemplate)
    /\ ret.outcome = "returned"
    /\ ret.value > 0
    /\ Len(Writes) > 0

(***************************************************************************)
(* C2: a printStackDiff call on a non-empty diff that returns has invoked  *)
(* the built-in renderer alone when the registry is empty, and otherwise   *)
(* every registered source once, in registration order, each source's      *)
(* formatter obtained, run and finished before the next one is obtained.   *)
(***************************************************************************)
C2_OneInvocationPerSource ==
    (IsStackCall /\ ret.outcome = "returned" /\ DisplayedCount > 0)
        => /\ IsSequentialRendering(events, "formatDifferences")
           /\ InvokedSources = IF registry = <<>> THEN <<Builtin>> ELSE registry

C2_Witness ==
    /\ IsStackCall
    /\ ret.outcome = "returned"
    /\ DisplayedCount > 0
    /\ Len(registry) = 2
    /\ InvokedSources = registry

(***************************************************************************)
(* C3: a printStackDiff call whose diff is empty invokes no renderer,      *)
(* registered or built-in, emits only the notice that there were no        *)
(* differences, and returns 0, whatever the registry and strict are.       *)
(***************************************************************************)
C3_EmptyDiffRendersNothing ==
    (IsStackCall /\ DisplayedCount = 0)
        => /\ events = <<NoticeEvent("print", NoDifferences)>>
           /\ ret.outcome = "returned"
           /\ ret.value = 0

C3_Witness ==
    /\ IsStackCall
    /\ DisplayedCount = 0
    /\ Len(registry) > 0
    /\ ~call.strict
    /\ Len(call.diff.resources) > 0
    /\ ret.outcome = "returned"
    /\ Len(Invocations) = 0

(***************************************************************************)
(* C4: the approval policy depends on the two permission flags and the     *)
(* level alone: never gives false, any-change gives permissionsAnyChanges, *)
(* broadening gives permissionsBroadened, any other level fails.           *)
(***************************************************************************)
C4_ApprovalPolicy ==
    call.op = "difRequiresApproval"
        => /\ call.requireApproval = "never"
                => (ret.outcome = "returned" /\ ret.value = FALSE)
           /\ call.requireApproval = "any-change"
                => (ret.outcome = "returned" /\ ret.value = call.diff.permissionsAnyChanges)
           /\ call.requireApproval = "broadening"
                => (ret.outcome = "returned" /\ ret.value = call.diff.permissionsBroadened)
           /\ call.requireApproval \notin {"never", "any-change", "broadening"}
                => (ret.outcome = "threw" /\ ret.error = "Unrecognized approval level")

C4_Witness ==
    /\ call.op = "difRequiresApproval"
    /\ call.requireApproval = "broadening"
    /\ call.diff.permissionsAnyChanges
    /\ ~call.diff.permissionsBroadened
    /\ ret.outcome = "returned"
    /\ ret.value = FALSE

(***************************************************************************)
(* C5: printSecurityDiff returns true exactly when the policy requires     *)
(* approval. Returning true, it has emitted the warning and then run the   *)
(* security-only rendering of every registered source in registration      *)
(* order, or of the built-in when the registry is empty. Returning false,  *)
(* it has emitted nothing and obtained no renderer. It never runs a        *)
(* renderer's full-diff rendering.                                         *)
(***************************************************************************)
PolicyRequiresApproval ==
    \/ call.requireApproval = "any-change" /\ call.diff.permissionsAnyChanges
    \/ call.requireApproval = "broadening" /\ call.diff.permissionsBroadened

Warnings == <<NoticeEvent("warning", SensitiveChanges), NoticeEvent("warning", PleaseConfirm)>>

C5_SecurityDiffRendering ==
    IsSecurityCall
        => /\ \A i \in 1..Len(events) : events[i].ev # "formatDifferences"
           /\ ret.outcome = "returned" =>
                /\ ret.value = PolicyRequiresApproval
                /\ ret.value =>
                     /\ Len(events) >= 2
                     /\ SubSeq(events, 1, 2) = Warnings
                     /\ IsSequentialRendering(SubSeq(events, 3, Len(events)), "formatSecurityChanges")
                /\ ~ret.value => events = <<>>

C5_Witness ==
    /\ IsSecurityCall
    /\ ret.outcome = "returned"
    /\ ret.value = TRUE
    /\ Len(registry) = 2
    /\ Len(Writes) = 2

(***************************************************************************)
(* C6: without strict, the resource changes handed to every renderer by    *)
(* printStackDiff are those of the diff algorithm without the ones whose   *)
(* old or new type is AWS::CDK::Metadata, the others (absent records       *)
(* included) in their original order; with strict they are exactly those   *)
(* of the diff algorithm.                                                  *)
(***************************************************************************)
C6_SentinelFiltered ==
    IsStackCall
        => \A h \in 1..Len(HandOvers) :
             LET handed == HandOvers[h].args.diff.resources
             IN  /\ Len(handed) = Cardinality(Displayed)
                 /\ \A j \in 1..Len(handed) : handed[j] = call.diff.resources[Nth(Displayed, j)]
                 /\ ~call.strict => \A j \in 1..Len(handed) : ~IsSentinelChange(handed[j])
                 /\ call.strict => handed = call.diff.resources

C6_Witness ==
    /\ IsStackCall
    /\ ~call.strict
    /\ Len(HandOvers) = 2
    /\ \E i \in 1..Len(call.diff.resources) : IsSentinelChange(call.diff.resources[i])
    /\ \E i \in 1..Len(call.diff.resources) : call.diff.resources[i] = NullChange
    /\ Len(HandOvers[1].args.diff.resources) = 1

(***************************************************************************)
(* C7 (as stated): the count printStackDiff returns is the count of the    *)
(* diff algorithm before the filtering, the same with and without strict.  *)
(***************************************************************************)
C7_ReturnsUnfilteredCount ==
    (IsStackCall /\ ret.outcome = "returned") => ret.value = UnfilteredCount

(***************************************************************************)
(* C7 (amended): the count printStackDiff returns is the count of the      *)
(* differences that are displayed: without strict the changes of           *)
(* AWS::CDK::Metadata resources are not counted, with strict the count is  *)
(* the one of the diff algorithm.                                          *)
(***************************************************************************)
C7_ReturnsDisplayedCount ==
    (IsStackCall /\ ret.outcome = "returned")
        => /\ ret.value = DisplayedCount
           /\ call.strict => ret.value = UnfilteredCount

C7_Witness ==
    /\ IsStackCall
    /\ ret.outcome = "returned"
    /\ ~call.strict
    /\ ret.value > 0
    /\ ret.value < UnfilteredCount

(***************************************************************************)
(* C8: a reporting call that renders invokes the sources that are in the   *)
(* registry at the moment of the call, in their order: a source registered *)
(* before the call is invoked, one that is not registered any more is not, *)
(* and the built-in is used whenever the registry is empty.                *)
(***************************************************************************)
C8_RegistryReadFresh ==
    ((IsStackCall \/ IsSecurityCall) /\ ret.outcome = "returned" /\ Len(Invocations) > 0)
        => /\ registry # <<>> => InvokedSources = registry
           /\ registry = <<>> => InvokedSources = <<Builtin>>
           /\ \A n \in SourceNames \ Names(registry) :
                \A i \in 1..Len(events) : events[i].ev \in {"getFormatter", "write"} => events[i].src # n

C8_Witness ==
    /\ IsSecurityCall
    /\ ret.outcome = "returned"
    /\ registry = <<2, 1>>
    /\ InvokedSources = <<2, 1>>

(***************************************************************************)
(* C9 (as stated): a call that fails has rendered nothing and emitted no   *)
(* notice.                                                                 *)
(***************************************************************************)
C9_NothingRenderedOnFailure ==
    ret.outcome = "threw" => events = <<>>

(***************************************************************************)
(* C9 (amended): a call that fails produces no count and no boolean. A     *)
(* failure on an unrecognized approval level happens before any notice or  *)
(* rendering. When the k-th source fails, the output of the sources before *)
(* it is on the stream, in order, nothing of the later sources is, and     *)
(* printSecurityDiff has emitted its warning.                              *)
(***************************************************************************)
C9_PartialOutputOnFailure ==
    ((IsStackCall \/ IsSecurityCall) /\ ret.outcome = "threw")
        => /\ ret.value = Undefined
           /\ ret.error = "Unrecognized approval level" => events = <<>>
           /\ ret.error = "FormatterError" =>
                /\ call.fault.at >= 1
                /\ WrittenBy = SubSeq(registry, 1, call.fault.at - 1)
                /\ IsSecurityCall => Notices = Warnings
                /\ IsStackCall => Notices = <<>>
           /\ ret.error \in {"Unrecognized approval level", "FormatterError"}

C9_Witness ==
    /\ IsStackCall
    /\ ret.outcome = "threw"
    /\ call.fault.at = 2
    /\ Len(Writes) = 1

(***************************************************************************)
(* C10: the keys of the map buildLogicalToPathMap returns are the data of  *)
(* the artifact's LOGICAL_ID entries and of no other entry, and each key   *)
(* maps to the path of the last LOGICAL_ID entry that carries it; nothing  *)
(* else is in the map.                                                     *)
(***************************************************************************)
LogicalIdEntries == {i \in 1..Len(call.stack) : call.stack[i].type = LOGICAL_ID}

C10_LastEntryWins ==
    call.op = "buildLogicalToPathMap"
        => /\ DOMAIN ret.value = {call.stack[i].data : i \in LogicalIdEntries}
           /\ \A i \in LogicalIdEntries :
                (\A j \in LogicalIdEntries : call.stack[j].data = call.stack[i].data => j <= i)
                    => ret.value[call.stack[i].data] = call.stack[i].path

C10_Witness ==
    /\ call.op = "buildLogicalToPathMap"
    /\ Len(call.stack) = 3
    /\ \E i, j \in LogicalIdEntries :
         /\ i < j
         /\ call.stack[i].data = call.stack[j].data
         /\ call.stack[i].path # call.stack[j].path
         /\ ret.value[call.stack[i].data] = call.stack[j].path
    /\ \E i \in 1..3 : call.stack[i].type = ERROR /\ call.stack[i].data \notin DOMAIN ret.value

====
